---- MODULE Spec2Model ----
(***************************************************************************)
(* A model of tsh (src/tsh.c): the job table, the main flow (eval and the  *)
(* builtins jobs, fg, bg, quit) and the SIGCHLD / SIGINT / SIGTSTP         *)
(* handlers that preempt it, together with the child processes, the signal *)
(* state of the shell process (blocked mask, pending set) and the lines    *)
(* the shell writes.                                                       *)
(***************************************************************************)
EXTENDS Integers, Sequences, FiniteSets, TLC

(* ------------------------------------------------------------------ *)
(* Sizes.  tsh.c sets MAXJOBS to 16; the model keeps the table small.  *)
(* ------------------------------------------------------------------ *)
MAXJOBS == 4
\* largest value the next-id counter may have when a launch is started
MaxJid == 4
\* process ids the kernel hands out to children of the shell: with keyboard
\* signals (Spec), and without them (SpecJobs)
MaxPid == 1
MaxPidJobs == 3
\* and under fair scheduling, where several children exit at once (FairJobsSpec)
MaxPidFair == 2
\* and when the table is filled up (SpecFull): one more than it can hold
MaxPidFull == 5

(* Job states, tsh.c:36-39 *)
UNDEF == 0
FG == 1
BG == 2
ST == 3

Slots == 1..MAXJOBS
\* pids used when the table is driven directly (one more than it can hold)
TablePids == 1..(MAXJOBS + 1)

(* The signals the shell handles; the "full set" of sigfillset is modelled *)
(* by these three, the only ones that have handlers touching the table.    *)
SIGINT == "SIGINT"
SIGTSTP == "SIGTSTP"
SIGCHLD == "SIGCHLD"
SIGCONT == "SIGCONT"
mask_three == {SIGCHLD, SIGINT, SIGTSTP}
mask_all == {SIGCHLD, SIGINT, SIGTSTP}

VARIABLES
    job_list,   \* [Slots -> job_t]
    nextjid,    \* next job ID to allocate
    mask,       \* blocked signals of the shell process
    pending,    \* signals pending for the shell process
    proc,       \* [Pids -> state of the child process with that pid]
    csig,       \* [Pids -> signals pending in that child]
    pc,         \* position of the main flow
    m,          \* locals of the main flow
    hstack,     \* handler frames stacked on the main flow, innermost last
    woken,      \* a handler has run since the main flow entered sigsuspend
    shell,      \* "running", "exited" (exit(0)) or "crashed" (SIGSEGV)
    out         \* the lines written since the last command line was read

vars == <<job_list, nextjid, mask, pending, proc, csig, pc, m, hstack, woken, shell, out>>

\* the pids the kernel hands out (fixed by the initial state)
Pids == DOMAIN proc

(* ------------------------------------------------------------------ *)
(* The job list helpers                                                *)
(* ------------------------------------------------------------------ *)
\* A line of output: what it says, and the job id and pid printed in it.
\* "job" is "[jid] (pid) cmdline"; "stopped" and "terminated" are
\* "Job [jid] (pid) stopped / terminated by signal sig"; "full" is addjob's
\* "Tried to create too many jobs"; the others are the error lines of fg and bg
Line(kind, jid, pid, sig) == [kind |-> kind, jid |-> jid, pid |-> pid, sig |-> sig]

EmptyJob == [pid |-> 0, jid |-> 0, state |-> UNDEF, cmdline |-> ""]

clearjob(jl, i) == [jl EXCEPT ![i] = EmptyJob]

initjobs == [i \in Slots |-> EmptyJob]

RECURSIVE MaxFrom(_, _, _)
MaxFrom(jl, i, max) ==
    IF i > MAXJOBS THEN max
    ELSE MaxFrom(jl, i + 1, IF jl[i].jid > max THEN jl[i].jid ELSE max)

\* mutant: the scan misses the last slot
maxjid_short(jl) ==
    LET RECURSIVE F(_, _)
        F(i, max) == IF i > MAXJOBS - 1 THEN max
                     ELSE F(i + 1, IF jl[i].jid > max THEN jl[i].jid ELSE max)
    IN F(1, 0)

maxjid(jl) == MaxFrom(jl, 1, 0)

\* index of the first slot among S, 0 if none (the for loops of tsh.c)
FirstSlot(S) ==
    IF S # {}
    THEN CHOOSE i \in S : \A k \in S : i <= k
    ELSE 0

\* mutant: an addjob that, finding no free slot, takes the first one
addjob_evict(jl, nj, pid, state, cmdline) ==
    LET free == {k \in Slots : jl[k].pid = 0}
        i == IF free = {} THEN 1 ELSE CHOOSE k \in free : \A l \in free : k <= l
    IN [jl |-> [jl EXCEPT ![i] = [pid |-> pid, jid |-> nj,
                                  state |-> state, cmdline |-> cmdline]],
        nj |-> IF nj + 1 > MAXJOBS THEN 1 ELSE nj + 1,
        ok |-> 1, lines |-> <<>>]

\* addjob: the new table, the new counter, the return value and what is
\* printed ("Tried to create too many jobs" when no slot is free)
addjob(jl, nj, pid, state, cmdline) ==
    LET i == FirstSlot({k \in Slots : jl[k].pid = 0}) IN
    IF pid < 1 \/ i = 0
    THEN [jl |-> jl, nj |-> nj, ok |-> 0,
          lines |-> IF pid < 1 THEN <<>> ELSE <<Line("full", 0, 0, "")>>]
    ELSE [jl |-> [jl EXCEPT ![i] = [pid |-> pid, jid |-> nj,
                                   state |-> state, cmdline |-> cmdline]],
          nj |-> IF nj + 1 > MAXJOBS THEN 1 ELSE nj + 1,
          ok |-> 1, lines |-> <<>>]

deletejob(jl, nj, pid) ==
    LET i == FirstSlot({k \in Slots : jl[k].pid = pid}) IN
    IF pid < 1 \/ i = 0
    THEN [jl |-> jl, nj |-> nj, ok |-> 0]
    ELSE [jl |-> clearjob(jl, i), nj |-> maxjid(clearjob(jl, i)) + 1, ok |-> 1]

fgpid(jl) ==
    LET i == FirstSlot({k \in Slots : jl[k].state = FG}) IN
    IF i = 0 THEN 0 ELSE jl[i].pid

\* getjobpid / getjobjid return a slot index; 0 stands for NULL
getjobpid(jl, pid) ==
    IF pid < 1 THEN 0 ELSE FirstSlot({k \in Slots : jl[k].pid = pid})

getjobjid(jl, jid) ==
    IF jid < 1 THEN 0 ELSE FirstSlot({k \in Slots : jl[k].jid = jid})

pid2jid(jl, pid) ==
    LET i == FirstSlot({k \in Slots : jl[k].pid = pid}) IN
    IF pid < 1 \/ i = 0 THEN 0 ELSE jl[i].jid

\* pid is in some slot of the table
InTable(jl, pid) == \E i \in Slots : jl[i].pid = pid

(* ------------------------------------------------------------------ *)
(* Initial state: main() after Signal(...) and initjobs(job_list)      *)
(* ------------------------------------------------------------------ *)
NoLocals == [pid |-> 0, jid |-> 0, bg |-> 0, job |-> 0, status |-> "", msg |-> "",
             prev |-> {}, smask |-> {}]

InitPids(n) ==
    /\ job_list = initjobs
    /\ nextjid = 1
    /\ mask = {}
    /\ pending = {}
    /\ proc = [p \in 1..n |-> "free"]
    /\ csig = [p \in 1..n |-> {}]
    /\ pc = "read"
    /\ m = NoLocals
    /\ hstack = <<>>
    /\ woken = FALSE
    /\ shell = "running"
    /\ out = <<>>

Init == InitPids(MaxPid)

(* ------------------------------------------------------------------ *)
(* Signals and child processes                                         *)
(* ------------------------------------------------------------------ *)
\* A child is "free" (no such process), "run", "stopU" (stopped, the stop
\* not yet reported by waitpid), "stopR" (stopped, stop reported), "zexit"
\* (zombie, exited), "zsig" (zombie, killed by SIGINT) or "zkill" (zombie,
\* killed by another signal).
Alive(st) == st \in {"run", "stopU", "stopR"}
Stopped(st) == st \in {"stopU", "stopR"}
Reportable(st) == st \in {"stopU", "zexit", "zsig", "zkill"}
\* WIFSIGNALED, WTERMSIG and WSTOPSIG of the status waitpid returns
Signaled(status) == status \in {"zsig", "zkill"}
TermSig(status) == IF status = "zsig" THEN SIGINT ELSE "SIGKILL"

\* kill(-pid, sig).  SIGCONT resumes a stopped group at once, discards its
\* pending stop signal and makes the kernel notify the parent (SIGCHLD);
\* SIGINT and SIGTSTP become pending in the child (a stop signal sent to a
\* stopped child is dropped: the SIGCONT that resumes it would discard it).
\* pid 0 addresses the shell's own group (every child has left it,
\* tsh.c:264): the shell gets the signal itself, and SIGCONT does nothing
\* to it.
Kill(pr, cs, pid, sig) ==
    IF pid = 0
    THEN [proc |-> pr, csig |-> cs, chld |-> {sig} \cap mask_three]
    ELSE IF pid \notin DOMAIN pr \/ ~Alive(pr[pid])
    THEN [proc |-> pr, csig |-> cs, chld |-> {}]
    ELSE IF sig = SIGCONT
    THEN [proc |-> IF Stopped(pr[pid]) THEN [pr EXCEPT ![pid] = "run"] ELSE pr,
          csig |-> [cs EXCEPT ![pid] = @ \ {SIGTSTP}],
          chld |-> IF Stopped(pr[pid]) THEN {SIGCHLD} ELSE {}]
    ELSE IF sig = SIGTSTP /\ Stopped(pr[pid])
    THEN [proc |-> pr, csig |-> cs, chld |-> {}]
    ELSE [proc |-> pr, csig |-> [cs EXCEPT ![pid] = @ \cup {sig}], chld |-> {}]

Running == shell = "running"
MainTurn == Running /\ hstack = <<>>

TableVars == <<job_list, nextjid>>
ChildVars == <<proc, csig>>

(* ------------------------------------------------------------------ *)
(* eval: an external command, tsh.c:256-312                            *)
(* ------------------------------------------------------------------ *)
\* mutant: eval forks without blocking the three signals first
NoBlock(msk) == msk

\* Sigprocmask(SIG_BLOCK, &mask_three, &prev), tsh.c:258
BlockThree(msk) == msk \cup mask_three

\* A line naming an external program; builtin_command blocks and restores
\* the mask (tsh.c:321-323) and returns 0, then eval blocks the three signals.
EvalBlock(bg) ==
    /\ MainTurn /\ pc = "read"
    /\ nextjid <= MaxJid
    /\ \E p \in Pids : proc[p] = "free"
    /\ m' = [NoLocals EXCEPT !.bg = bg, !.prev = mask]
    /\ mask' = BlockThree(mask)
    /\ pc' = "eval_fork"
    /\ out' = <<>>
    /\ UNCHANGED <<TableVars, ChildVars, pending, hstack, woken, shell>>

\* pid = Fork(), tsh.c:260; the child runs the program
EvalFork ==
    /\ MainTurn /\ pc = "eval_fork"
    /\ \E p \in Pids :
        /\ proc[p] = "free"
        /\ proc' = [proc EXCEPT ![p] = "run"]
        /\ csig' = [csig EXCEPT ![p] = {}]
        /\ m' = [m EXCEPT !.pid = p]
    /\ pc' = "eval_addjob"
    /\ UNCHANGED <<TableVars, mask, pending, hstack, woken, shell, out>>

\* addjob(job_list, pid, bg + 1, cmdline); jid = pid2jid(pid), tsh.c:292-293
EvalAddjob ==
    /\ MainTurn /\ pc = "eval_addjob"
    /\ LET r == addjob(job_list, nextjid, m.pid, m.bg + 1, "cmd") IN
        /\ job_list' = r.jl
        /\ nextjid' = r.nj
        /\ out' = out \o r.lines
        /\ m' = [m EXCEPT !.jid = pid2jid(r.jl, m.pid)]
    /\ pc' = IF m.bg = 0 THEN "eval_wait" ELSE "eval_print"
    /\ UNCHANGED <<ChildVars, mask, pending, hstack, woken, shell>>

\* while (pid == fgpid(job_list)), tsh.c:297
EvalWait ==
    /\ MainTurn /\ pc = "eval_wait"
    /\ pc' = IF m.pid = fgpid(job_list) THEN "eval_suspend" ELSE "eval_unblock"
    /\ UNCHANGED <<TableVars, ChildVars, mask, pending, m, hstack, woken, shell, out>>

\* Sigsuspend(&prev), tsh.c:298: the mask is replaced and the process sleeps
EvalSuspend ==
    /\ MainTurn /\ pc = "eval_suspend"
    /\ m' = [m EXCEPT !.smask = mask]
    /\ mask' = m.prev
    /\ woken' = FALSE
    /\ pc' = "eval_suspended"
    /\ UNCHANGED <<TableVars, ChildVars, pending, hstack, shell, out>>

\* sigsuspend returns once a handler has run and returned; the mask is restored
EvalResume ==
    /\ MainTurn /\ pc = "eval_suspended" /\ woken
    /\ mask' = m.smask
    /\ m' = [m EXCEPT !.smask = {}]
    /\ woken' = FALSE
    /\ pc' = "eval_wait"
    /\ UNCHANGED <<TableVars, ChildVars, pending, hstack, shell, out>>

\* the "[jid] (pid) cmdline" line of a background launch, tsh.c:303-309
EvalPrint ==
    /\ MainTurn /\ pc = "eval_print"
    /\ out' = Append(out, Line("job", m.jid, m.pid, ""))
    /\ pc' = "eval_unblock"
    /\ UNCHANGED <<TableVars, ChildVars, mask, pending, m, hstack, woken, shell>>

\* mutant: eval returns to main's loop without restoring the mask
EvalReturnBlocked ==
    /\ MainTurn /\ pc = "eval_unblock"
    /\ m' = NoLocals
    /\ pc' = "read"
    /\ UNCHANGED <<TableVars, ChildVars, mask, pending, hstack, woken, shell, out>>

\* Sigprocmask(SIG_SETMASK, &prev, NULL), tsh.c:311, and return to main's loop
EvalUnblock ==
    /\ MainTurn /\ pc = "eval_unblock"
    /\ mask' = m.prev
    /\ m' = NoLocals
    /\ pc' = "read"
    /\ UNCHANGED <<TableVars, ChildVars, pending, hstack, woken, shell, out>>

(* ------------------------------------------------------------------ *)
(* The builtins fg, bg and quit.  builtin_command blocks every signal   *)
(* and restores the mask at once (tsh.c:321-323), so the builtins run   *)
(* with the mask of the read loop; prev (pprev in execute_fg) is that   *)
(* mask.                                                                *)
(* ------------------------------------------------------------------ *)
\* the ids a user types after % and the pids a user types
JidArgs == 1..(MaxJid + 1)

\* fg/bg with no or several arguments, or with a zero or non-numeric id:
\* one error line, tsh.c:390-396, 401-406, 419-424 (459-464, 469-474, 487-492)
BuiltinBadArg ==
    /\ MainTurn /\ pc = "read"
    /\ m' = [NoLocals EXCEPT !.msg = "badarg"]
    /\ pc' = "error_line"
    /\ out' = <<>>
    /\ UNCHANGED <<TableVars, ChildVars, mask, pending, hstack, woken, shell>>

\* the error line has been written; execute_fg / execute_bg return
ErrorLine ==
    /\ MainTurn /\ pc = "error_line"
    /\ out' = Append(out, Line(m.msg, m.jid, m.pid, ""))
    /\ m' = NoLocals
    /\ pc' = "read"
    /\ UNCHANGED <<TableVars, ChildVars, mask, pending, hstack, woken, shell>>

\* fg %jid / bg %jid: target_job = getjobjid(job_list, jid), tsh.c:407, 475
BuiltinByJid(cmd, jid) ==
    /\ MainTurn /\ pc = "read"
    /\ m' = [NoLocals EXCEPT !.job = getjobjid(job_list, jid), !.jid = jid,
                              !.prev = mask]
    /\ pc' = IF cmd = "fg" THEN "fg_deref" ELSE "bg_deref"
    /\ out' = <<>>
    /\ UNCHANGED <<TableVars, ChildVars, mask, pending, hstack, woken, shell>>

\* pid = target_job->pid before the NULL test, tsh.c:408-409, 476-477.
\* Reading through a NULL target_job is undefined: the shell dies of SIGSEGV
\* at the load, or (a build that moves the load behind the test) reports
\* that the job does not exist, tsh.c:409-415, 477-483
BuiltinDeref ==
    /\ MainTurn /\ pc \in {"fg_deref", "bg_deref"}
    /\ IF m.job = 0
       THEN \/ shell' = "crashed" /\ UNCHANGED <<m, pc>>
            \/ /\ m' = [m EXCEPT !.msg = "nojid"]
               /\ pc' = "error_line"
               /\ UNCHANGED shell
       ELSE /\ m' = [m EXCEPT !.pid = job_list[m.job].pid]
            /\ pc' = IF pc = "fg_deref" THEN "fg_undef" ELSE "bg_st"
            /\ UNCHANGED shell
    /\ UNCHANGED <<TableVars, ChildVars, mask, pending, hstack, woken, out>>

\* fg pid / bg pid: target_job = getjobpid(job_list, pid) and the NULL test,
\* tsh.c:425-433, 493-501
BuiltinByPid(cmd, pid) ==
    /\ MainTurn /\ pc = "read"
    /\ LET job == getjobpid(job_list, pid) IN
        /\ m' = [NoLocals EXCEPT !.job = job, !.pid = pid,
                                  !.jid = pid2jid(job_list, pid),
                                  !.msg = IF job = 0 THEN "nopid" ELSE "",
                                  !.prev = mask]
        /\ pc' = IF job = 0 THEN "error_line"
                 ELSE IF cmd = "fg" THEN "fg_undef" ELSE "bg_st"
    /\ out' = <<>>
    /\ UNCHANGED <<TableVars, ChildVars, mask, pending, hstack, woken, shell>>

\* if (target_job->state == UNDEF), tsh.c:437-441
FgUndef ==
    /\ MainTurn /\ pc = "fg_undef"
    /\ IF job_list[m.job].state = UNDEF
       THEN pc' = "error_line" /\ m' = [m EXCEPT !.msg = "undef"]
       ELSE pc' = "fg_st" /\ UNCHANGED m
    /\ UNCHANGED <<TableVars, ChildVars, mask, pending, hstack, woken, shell, out>>

\* if (target_job->state == ST), tsh.c:442 and 510 (the test of tsh.c:505
\* compares the pointer, which is not NULL here, with 0 and never holds)
BuiltinSt ==
    /\ MainTurn /\ pc \in {"fg_st", "bg_st"}
    /\ pc' = IF job_list[m.job].state = ST
             THEN (IF pc = "fg_st" THEN "fg_kill" ELSE "bg_kill")
             ELSE (IF pc = "fg_st" THEN "fg_set" ELSE "bg_set")
    /\ UNCHANGED <<TableVars, ChildVars, mask, pending, m, hstack, woken, shell, out>>

\* kill(-pid, SIGCONT), tsh.c:443, 511
BuiltinKill ==
    /\ MainTurn /\ pc \in {"fg_kill", "bg_kill"}
    /\ LET k == Kill(proc, csig, m.pid, SIGCONT) IN
        /\ proc' = k.proc
        /\ csig' = k.csig
        /\ pending' = pending \cup k.chld
    /\ pc' = IF pc = "fg_kill" THEN "fg_set" ELSE "bg_set"
    /\ UNCHANGED <<TableVars, mask, m, hstack, woken, shell, out>>

\* target_job->state = FG, tsh.c:444
FgSet ==
    /\ MainTurn /\ pc = "fg_set"
    /\ job_list' = [job_list EXCEPT ![m.job].state = FG]
    /\ pc' = "fg_wait"
    /\ UNCHANGED <<nextjid, ChildVars, mask, pending, m, hstack, woken, shell, out>>

\* while (fgpid(job_list)), tsh.c:445; execute_fg returns when it is 0
FgWait ==
    /\ MainTurn /\ pc = "fg_wait"
    /\ IF fgpid(job_list) # 0
       THEN pc' = "fg_suspend" /\ UNCHANGED m
       ELSE pc' = "read" /\ m' = NoLocals
    /\ UNCHANGED <<TableVars, ChildVars, mask, pending, hstack, woken, shell, out>>

\* Sigsuspend(pprev), tsh.c:446
FgSuspend ==
    /\ MainTurn /\ pc = "fg_suspend"
    /\ m' = [m EXCEPT !.smask = mask]
    /\ mask' = m.prev
    /\ woken' = FALSE
    /\ pc' = "fg_suspended"
    /\ UNCHANGED <<TableVars, ChildVars, pending, hstack, shell, out>>

FgResume ==
    /\ MainTurn /\ pc = "fg_suspended" /\ woken
    /\ mask' = m.smask
    /\ m' = [m EXCEPT !.smask = {}]
    /\ woken' = FALSE
    /\ pc' = "fg_wait"
    /\ UNCHANGED <<TableVars, ChildVars, pending, hstack, shell, out>>

\* target_job->state = BG, tsh.c:512
BgSet ==
    /\ MainTurn /\ pc = "bg_set"
    /\ job_list' = [job_list EXCEPT ![m.job].state = BG]
    /\ pc' = "bg_print"
    /\ UNCHANGED <<nextjid, ChildVars, mask, pending, m, hstack, woken, shell, out>>

\* A line of the main flow is written by several write() calls.  out gets the
\* line when its first fragment is written and the later fragments fill it
\* in; OpenLine is the place in o of the line being written
OpenLine(o, kind) ==
    CHOOSE k \in 1..Len(o) :
        o[k].kind = kind /\ \A j \in (k + 1)..Len(o) : o[j].kind # kind

\* sio_puts("["); sio_putl(target_job->jid), tsh.c:514-515
BgPrintJid ==
    /\ MainTurn /\ pc = "bg_print"
    /\ out' = Append(out, Line("job", job_list[m.job].jid, 0, ""))
    /\ pc' = "bg_print_pid"
    /\ UNCHANGED <<TableVars, ChildVars, mask, pending, m, hstack, woken, shell>>

\* sio_puts("] ("); sio_putl(target_job->pid), tsh.c:516-517
BgPrintPid ==
    /\ MainTurn /\ pc = "bg_print_pid"
    /\ out' = [out EXCEPT ![OpenLine(out, "job")].pid = job_list[m.job].pid]
    /\ pc' = "bg_print_cmdline"
    /\ UNCHANGED <<TableVars, ChildVars, mask, pending, m, hstack, woken, shell>>

\* sio_puts(") "); sio_puts(target_job->cmdline); sio_puts("\n"), tsh.c:518-520,
\* and return
BgPrintCmdline ==
    /\ MainTurn /\ pc = "bg_print_cmdline"
    /\ m' = NoLocals
    /\ pc' = "read"
    /\ UNCHANGED <<TableVars, ChildVars, mask, pending, hstack, woken, shell, out>>

\* the "[jid] (pid) cmdline" line of execute_bg, tsh.c:514-520
BgPrint == BgPrintJid \/ BgPrintPid \/ BgPrintCmdline

\* jobs: listjobs(job_list, STDOUT_FILENO), tsh.c:326-339, which runs with
\* the mask of the read loop; i walks the table, tsh.c:988
ListjobsBegin ==
    /\ MainTurn /\ pc = "read"
    /\ m' = [NoLocals EXCEPT !.job = 1]
    /\ pc' = "listjobs"
    /\ UNCHANGED <<TableVars, ChildVars, mask, pending, hstack, woken, shell>>

\* jobs typed at the prompt: the lines of the command before it are dropped
ListjobsStart == ListjobsBegin /\ out' = <<>>

\* the word listjobs prints for a state, tsh.c:997-1010
StateLabel(state) ==
    IF state = BG THEN "Running"
    ELSE IF state = FG THEN "Foreground"
    ELSE IF state = ST THEN "Stopped" ELSE "Internal error"

\* one turn of the loop of listjobs, tsh.c:988-995: the "[jid] (pid) " of an
\* occupied slot is written; after the last slot builtin_command returns
ListjobsSlot ==
    /\ MainTurn /\ pc = "listjobs"
    /\ IF m.job > MAXJOBS
       THEN m' = NoLocals /\ pc' = "read" /\ UNCHANGED out
       ELSE IF job_list[m.job].pid # 0
       THEN /\ out' = Append(out, Line("row", job_list[m.job].jid,
                                       job_list[m.job].pid, ""))
            /\ pc' = "listjobs_state"
            /\ UNCHANGED m
       ELSE /\ m' = [m EXCEPT !.job = @ + 1]
            /\ UNCHANGED <<pc, out>>
    /\ UNCHANGED <<TableVars, ChildVars, mask, pending, hstack, woken, shell>>

\* the word for job_list[i].state is written, tsh.c:997-1014
ListjobsState ==
    /\ MainTurn /\ pc = "listjobs_state"
    /\ out' = [out EXCEPT ![OpenLine(out, "row")].sig =
                              StateLabel(job_list[m.job].state)]
    /\ pc' = "listjobs_cmdline"
    /\ UNCHANGED <<TableVars, ChildVars, mask, pending, m, hstack, woken, shell>>

\* the command line and the newline are written, tsh.c:1015-1020
ListjobsCmdline ==
    /\ MainTurn /\ pc = "listjobs_cmdline"
    /\ m' = [m EXCEPT !.job = @ + 1]
    /\ pc' = "listjobs"
    /\ UNCHANGED <<TableVars, ChildVars, mask, pending, hstack, woken, shell, out>>

ListjobsSteps == ListjobsSlot \/ ListjobsState \/ ListjobsCmdline

\* quit: Sigprocmask(SIG_BLOCK, &mask_all, &prev), tsh.c:362-363
QuitBlock ==
    /\ MainTurn /\ pc = "read"
    /\ m' = [NoLocals EXCEPT !.prev = mask]
    /\ mask' = mask \cup mask_all
    /\ pc' = "quit_wait"
    /\ out' = <<>>
    /\ UNCHANGED <<TableVars, ChildVars, pending, hstack, woken, shell>>

\* waitpid(-1, &status, WNOHANG | WUNTRACED): a zombie is reaped, a stop is
\* reported once; the status kept is the state the child was found in
Waitpid(pr, p) ==
    [pr EXCEPT ![p] = IF pr[p] = "stopU" THEN "stopR" ELSE "free"]

\* while ((pid = waitpid(...)) > 0), tsh.c:366, and exit(0), tsh.c:378
QuitWait ==
    /\ MainTurn /\ pc = "quit_wait"
    /\ \/ \E p \in Pids :
            /\ Reportable(proc[p])
            /\ m' = [m EXCEPT !.pid = p, !.status = proc[p]]
            /\ proc' = Waitpid(proc, p)
            /\ pc' = "quit_body"
            /\ UNCHANGED shell
       \/ /\ \A p \in Pids : ~Reportable(proc[p])
          /\ shell' = "exited"
          /\ UNCHANGED <<m, proc, pc>>
    /\ UNCHANGED <<TableVars, csig, mask, pending, hstack, woken, out>>

\* mutant: quit deletes the job of every child it has waited for, stopped
\* ones included
QuitBodyDeleteAll ==
    /\ MainTurn /\ pc = "quit_body"
    /\ LET r == deletejob(job_list, nextjid, m.pid) IN
        /\ job_list' = r.jl
        /\ nextjid' = r.nj
    /\ m' = [m EXCEPT !.pid = 0, !.status = "", !.prev = mask]
    /\ pc' = "quit_wait"
    /\ UNCHANGED <<ChildVars, pending, mask, hstack, woken, shell, out>>

\* the body of quit's loop, tsh.c:368-376: the second SIG_BLOCK saves the
\* already full mask in prev, so the SIG_SETMASK leaves everything blocked
QuitBody ==
    /\ MainTurn /\ pc = "quit_body"
    /\ IF m.status = "stopU"
       THEN /\ LET k == Kill(proc, csig, m.pid, SIGINT) IN
                /\ proc' = k.proc
                /\ csig' = k.csig
                /\ pending' = pending \cup k.chld
            /\ UNCHANGED TableVars
       ELSE /\ LET r == deletejob(job_list, nextjid, m.pid) IN
                /\ job_list' = r.jl
                /\ nextjid' = r.nj
            /\ UNCHANGED <<ChildVars, pending>>
    /\ m' = [m EXCEPT !.pid = 0, !.status = "", !.prev = mask]
    /\ pc' = "quit_wait"
    /\ UNCHANGED <<mask, hstack, woken, shell, out>>

(* ------------------------------------------------------------------ *)
(* Signal delivery and the three handlers                              *)
(* ------------------------------------------------------------------ *)
Top == hstack[Len(hstack)]
SetTop(f) == [hstack EXCEPT ![Len(hstack)] = f]
Pop == SubSeq(hstack, 1, Len(hstack) - 1)
InHandler(h, l) == Running /\ hstack # <<>> /\ Top.h = h /\ Top.pc = l

FirstPc(sig) == IF sig = SIGCHLD THEN "c_wait"
                ELSE IF sig = SIGINT THEN "i_fgpid" ELSE "t_fgpid"

\* Signal() installs each handler with an empty sa_mask and without
\* SA_NODEFER (tsh.c:1224-1226): while a handler runs, only the signal it
\* handles is added to the blocked mask
SaMask(sig) == {sig}

\* The kernel delivers a pending signal that is not blocked: the handler is
\* entered on top of whatever was running; the mask of the interrupted code
\* is restored when the handler returns
Deliver(sig) ==
    /\ Running
    /\ sig \in pending /\ sig \notin mask
    /\ pending' = pending \ {sig}
    /\ hstack' = Append(hstack, [h |-> sig, pc |-> FirstPc(sig), pid |-> 0,
                                 jid |-> 0, job |-> 0, status |-> "",
                                 prev |-> {},
                                 saved |-> mask])
    /\ mask' = mask \cup SaMask(sig)
    /\ woken' = (pc \in {"eval_suspended", "fg_suspended"})
    /\ UNCHANGED <<TableVars, ChildVars, pc, m, shell, out>>

\* the handler returns: its frame is popped, the interrupted mask restored
Return == /\ hstack' = Pop
          /\ mask' = Top.saved

\* sigchld_handler: while ((pid = waitpid(-1, &status, WNOHANG|WUNTRACED)) > 0),
\* tsh.c:699; the handler returns when no child has a status to report
ChldWait ==
    /\ InHandler(SIGCHLD, "c_wait")
    /\ \/ \E p \in Pids :
            /\ Reportable(proc[p])
            /\ hstack' = SetTop([Top EXCEPT !.pid = p, !.status = proc[p],
                                            !.pc = "c_block"])
            /\ proc' = Waitpid(proc, p)
            /\ UNCHANGED mask
       \/ /\ \A p \in Pids : ~Reportable(proc[p])
          /\ Return
          /\ UNCHANGED proc
    /\ UNCHANGED <<TableVars, csig, pending, pc, m, woken, shell, out>>

\* Sigprocmask(SIG_BLOCK, &mask_all, &prev), tsh.c:701, 769, 802
HandlerBlock ==
    /\ Running /\ hstack # <<>>
    /\ Top.pc \in {"c_block", "i_block", "t_block"}
    /\ hstack' = SetTop([Top EXCEPT !.prev = mask,
                          !.pc = IF Top.pc = "c_block" THEN "c_body"
                                 ELSE IF Top.pc = "i_block" THEN "i_body"
                                 ELSE "t_body"])
    /\ mask' = mask \cup mask_all
    /\ UNCHANGED <<TableVars, ChildVars, pending, pc, m, woken, shell, out>>

\* mutant: a handler that treats one status change and returns, instead of
\* going back to waitpid
ChldBodyOnce ==
    /\ InHandler(SIGCHLD, "c_body")
    /\ LET d == deletejob(job_list, nextjid, Top.pid)
       IN job_list' = d.jl /\ nextjid' = d.nj
    /\ Return
    /\ UNCHANGED <<ChildVars, pending, pc, m, woken, shell, out>>

\* the body of the loop of sigchld_handler, tsh.c:702-747: job->state and
\* job->jid are read through the result of getjobpid without a NULL test
ChldBody ==
    /\ InHandler(SIGCHLD, "c_body")
    /\ LET f == Top
           job == getjobpid(job_list, f.pid)
           d == deletejob(job_list, nextjid, f.pid)
       IN IF (f.status = "stopU" \/ Signaled(f.status)) /\ job = 0
          THEN shell' = "crashed" /\ UNCHANGED <<TableVars, hstack, mask, out>>
          ELSE /\ IF f.status = "stopU"
                  THEN /\ IF job_list[job].state # ST
                          THEN /\ out' = Append(out, Line("stopped", job_list[job].jid,
                                                         job_list[job].pid, SIGTSTP))
                               /\ job_list' = [job_list EXCEPT ![job].state = ST]
                          ELSE UNCHANGED <<out, job_list>>
                       /\ UNCHANGED nextjid
                  ELSE /\ out' = IF Signaled(f.status)
                                 THEN Append(out, Line("terminated", job_list[job].jid,
                                                       job_list[job].pid, TermSig(f.status)))
                                 ELSE out
                       /\ job_list' = d.jl /\ nextjid' = d.nj
               /\ hstack' = SetTop([f EXCEPT !.pid = 0, !.status = "",
                                             !.prev = {}, !.pc = "c_wait"])
               /\ mask' = f.prev
               /\ UNCHANGED shell
    /\ UNCHANGED <<ChildVars, pending, pc, m, woken>>

\* pid = fgpid(job_list), tsh.c:767 and 798, before the signals are blocked
HandlerFgpid ==
    /\ Running /\ hstack # <<>>
    /\ Top.pc \in {"i_fgpid", "t_fgpid"}
    /\ hstack' = SetTop([Top EXCEPT !.pid = fgpid(job_list),
                          !.pc = IF Top.pc = "i_fgpid" THEN "i_block" ELSE "t_job"])
    /\ UNCHANGED <<TableVars, ChildVars, mask, pending, pc, m, woken, shell, out>>

\* mutant: a handler that also removes the job it interrupts
IntBodyDelete ==
    /\ InHandler(SIGINT, "i_body")
    /\ LET k == Kill(proc, csig, Top.pid, SIGINT)
           d == deletejob(job_list, nextjid, Top.pid)
       IN IF Top.pid # 0
          THEN /\ proc' = k.proc /\ csig' = k.csig
               /\ pending' = pending \cup k.chld
               /\ job_list' = d.jl /\ nextjid' = d.nj
          ELSE UNCHANGED <<ChildVars, pending, TableVars>>
    /\ Return
    /\ UNCHANGED <<pc, m, woken, shell, out>>

\* sigint_handler: if (pid) kill(-pid, sig); restore the mask; return,
\* tsh.c:771-782
IntBody ==
    /\ InHandler(SIGINT, "i_body")
    /\ LET k == Kill(proc, csig, Top.pid, SIGINT) IN
        IF Top.pid # 0
        THEN proc' = k.proc /\ csig' = k.csig /\ pending' = pending \cup k.chld
        ELSE UNCHANGED <<ChildVars, pending>>
    /\ Return
    /\ UNCHANGED <<TableVars, pc, m, woken, shell, out>>

\* sigtstp_handler: jid = pid2jid(pid); job = getjobpid(job_list, pid),
\* tsh.c:799-800, still before the signals are blocked
TstpJob ==
    /\ InHandler(SIGTSTP, "t_job")
    /\ hstack' = SetTop([Top EXCEPT !.jid = pid2jid(job_list, Top.pid),
                                    !.job = getjobpid(job_list, Top.pid),
                                    !.pc = "t_block"])
    /\ UNCHANGED <<TableVars, ChildVars, mask, pending, pc, m, woken, shell, out>>

\* mutant: a handler that prints and forwards the stop signal but leaves the
\* job's state as it is
TstpBodyNoState ==
    /\ InHandler(SIGTSTP, "t_body")
    /\ LET f == Top
           k == Kill(proc, csig, f.pid, SIGTSTP)
       IN IF f.pid = 0
          THEN UNCHANGED <<ChildVars, pending, out>>
          ELSE /\ out' = Append(out, Line("stopped", f.jid, f.pid, SIGTSTP))
               /\ proc' = k.proc /\ csig' = k.csig
               /\ pending' = pending \cup k.chld
    /\ Return
    /\ UNCHANGED <<TableVars, pc, m, woken, shell>>

\* sigtstp_handler: if (pid) { print; job->state = ST; kill(-pid, sig); }
\* restore the mask; return, tsh.c:804-828.  job is not tested: after the
\* line is printed a NULL job is written through and the shell dies of SIGSEGV
TstpBody ==
    /\ InHandler(SIGTSTP, "t_body")
    /\ LET f == Top
           k == Kill(proc, csig, f.pid, SIGTSTP)
       IN IF f.pid = 0
          THEN Return /\ UNCHANGED <<TableVars, ChildVars, pending, shell, out>>
          ELSE /\ out' = Append(out, Line("stopped", f.jid, f.pid, SIGTSTP))
               /\ IF f.job = 0
                  THEN /\ shell' = "crashed"
                       /\ UNCHANGED <<TableVars, ChildVars, pending, hstack, mask>>
                  ELSE /\ job_list' = [job_list EXCEPT ![f.job].state = ST]
                       /\ proc' = k.proc /\ csig' = k.csig
                       /\ pending' = pending \cup k.chld
                       /\ Return
                       /\ UNCHANGED <<nextjid, shell>>
    /\ UNCHANGED <<pc, m, woken>>

(* ------------------------------------------------------------------ *)
(* The environment: the keyboard and the children                      *)
(* ------------------------------------------------------------------ *)
\* ctrl-c / ctrl-z typed at the terminal: the signal is sent to the shell
Keyboard(sig) ==
    /\ Running
    /\ sig \notin pending
    /\ pending' = pending \cup {sig}
    /\ UNCHANGED <<TableVars, ChildVars, mask, pc, m, hstack, woken, shell, out>>

\* a running child exits by itself; the kernel sends SIGCHLD to the shell
ChildExit(p) ==
    /\ Running
    /\ proc[p] = "run"
    /\ proc' = [proc EXCEPT ![p] = "zexit"]
    /\ csig' = [csig EXCEPT ![p] = {}]
    /\ pending' = pending \cup {SIGCHLD}
    /\ UNCHANGED <<TableVars, mask, pc, m, hstack, woken, shell, out>>

\* a running child stops itself (it raises SIGTSTP, as in trace 12)
ChildStop(p) ==
    /\ Running
    /\ proc[p] = "run"
    /\ proc' = [proc EXCEPT ![p] = "stopU"]
    /\ csig' = [csig EXCEPT ![p] = @ \ {SIGTSTP}]
    /\ pending' = pending \cup {SIGCHLD}
    /\ UNCHANGED <<TableVars, mask, pc, m, hstack, woken, shell, out>>

\* a running child takes a pending signal with its default action:
\* SIGINT kills it, SIGTSTP stops it
ChildSignal(p, sig) ==
    /\ Running
    /\ proc[p] = "run" /\ sig \in csig[p]
    /\ proc' = [proc EXCEPT ![p] = IF sig = SIGINT THEN "zsig" ELSE "stopU"]
    /\ csig' = [csig EXCEPT ![p] = IF sig = SIGINT THEN {} ELSE @ \ {sig}]
    /\ pending' = pending \cup {SIGCHLD}
    /\ UNCHANGED <<TableVars, mask, pc, m, hstack, woken, shell, out>>

\* a running child is killed by a signal that another process sends it
\* (WIFSIGNALED, tsh.c:729)
ChildKilled(p) ==
    /\ Running
    /\ proc[p] = "run"
    /\ proc' = [proc EXCEPT ![p] = "zkill"]
    /\ csig' = [csig EXCEPT ![p] = {}]
    /\ pending' = pending \cup {SIGCHLD}
    /\ UNCHANGED <<TableVars, mask, pc, m, hstack, woken, shell, out>>

\* what the child writes after argv[0] when execve fails, tsh.c:285-286
NotFoundText == "s: Command not found.\n"

\* execve fails in the forked child (the program does not exist), tsh.c:283-288:
\* the child writes argv[0] and the text above to the terminal and calls
\* exit(0); the kernel sends SIGCHLD to the shell.  The child is scheduled
\* independently of the shell, so this happens at any time after the fork.
ExecFails(p) ==
    /\ Running
    /\ proc[p] = "run"
    /\ out' = Append(out, Line("child", 0, p, NotFoundText))
    /\ proc' = [proc EXCEPT ![p] = "zexit"]
    /\ csig' = [csig EXCEPT ![p] = {}]
    /\ pending' = pending \cup {SIGCHLD}
    /\ UNCHANGED <<TableVars, mask, pc, m, hstack, woken, shell>>

(* ------------------------------------------------------------------ *)
(* The shell                                                           *)
(* ------------------------------------------------------------------ *)
Main ==
    \/ \E bg \in {0, 1} : EvalBlock(bg)
    \/ EvalFork \/ EvalAddjob \/ EvalWait \/ EvalSuspend \/ EvalResume
    \/ EvalPrint \/ EvalUnblock
    \/ BuiltinBadArg \/ ErrorLine
    \/ \E cmd \in {"fg", "bg"}, jid \in JidArgs : BuiltinByJid(cmd, jid)
    \/ \E cmd \in {"fg", "bg"}, pid \in Pids : BuiltinByPid(cmd, pid)
    \/ BuiltinDeref \/ FgUndef \/ BuiltinSt \/ BuiltinKill
    \/ FgSet \/ FgWait \/ FgSuspend \/ FgResume
    \/ BgSet \/ BgPrint
    \/ ListjobsStart \/ ListjobsSteps
    \/ QuitBlock \/ QuitWait \/ QuitBody

Handlers ==
    \/ \E sig \in mask_three : Deliver(sig)
    \/ ChldWait \/ HandlerBlock \/ ChldBody
    \/ HandlerFgpid \/ IntBody \/ TstpJob \/ TstpBody

Environment ==
    \/ \E sig \in {SIGINT, SIGTSTP} : Keyboard(sig)
    \/ \E p \in Pids : ChildExit(p) \/ ChildStop(p)
    \/ \E p \in Pids, sig \in {SIGINT, SIGTSTP} : ChildSignal(p, sig)

Next == Main \/ Handlers \/ Environment

Spec == Init /\ [][Next]_vars

\* The shell with nobody at the keyboard and programs that only exit:
\* programs are launched and moved to the foreground with fg %jid, and only
\* SIGCHLD arrives.
MainJobs ==
    \/ \E bg \in {0, 1} : EvalBlock(bg)
    \/ EvalFork \/ EvalAddjob \/ EvalWait \/ EvalSuspend \/ EvalResume
    \/ EvalPrint \/ EvalUnblock
    \/ \E jid \in JidArgs : BuiltinByJid("fg", jid)
    \/ BuiltinDeref \/ FgUndef \/ BuiltinSt \/ ErrorLine
    \/ FgSet \/ FgWait \/ FgSuspend \/ FgResume

NextJobs ==
    \/ MainJobs
    \/ Deliver(SIGCHLD) \/ ChldWait \/ HandlerBlock \/ ChldBody
    \/ \E p \in Pids : ChildExit(p)

SpecJobs == InitPids(MaxPidJobs) /\ [][NextJobs]_vars

\* The shell with one child and a user who launches programs and types
\* ctrl-z, under the scheduling the kernel gives the shell process: code that
\* can run does run (the main flow between two reads of a command line, each
\* handler whenever it is the innermost frame), and a pending signal that
\* is unblocked again and again is delivered.  Nothing is assumed of the
\* user or of the children.
MainSteps ==
    \/ EvalFork \/ EvalAddjob \/ EvalWait \/ EvalSuspend \/ EvalResume
    \/ EvalPrint \/ EvalUnblock

ChldSteps == ChldWait \/ (HandlerBlock /\ Top.h = SIGCHLD) \/ ChldBody

TstpSteps ==
    (HandlerFgpid /\ Top.h = SIGTSTP) \/ TstpJob
        \/ (HandlerBlock /\ Top.h = SIGTSTP) \/ TstpBody

NextFair ==
    \/ \E bg \in {0, 1} : EvalBlock(bg)
    \/ MainSteps
    \/ Deliver(SIGCHLD) \/ Deliver(SIGTSTP)
    \/ ChldSteps \/ TstpSteps
    \/ Keyboard(SIGTSTP)
    \/ \E p \in Pids : ChildExit(p) \/ ChildStop(p) \/ ChildSignal(p, SIGTSTP)

FairSpec ==
    /\ InitPids(MaxPid) /\ [][NextFair]_vars
    /\ SF_vars(MainSteps)
    /\ SF_vars(ChldSteps) /\ SF_vars(TstpSteps)
    /\ SF_vars(Deliver(SIGCHLD)) /\ SF_vars(Deliver(SIGTSTP))

\* The shell with one child that is launched and brought (back) to the
\* foreground with fg %jid, under the same scheduling: the steps of
\* execute_fg run when they can, and the only signal is SIGCHLD.  Nothing is
\* assumed of the user or of the child.
FgSteps ==
    \/ BuiltinDeref \/ FgUndef \/ BuiltinSt \/ BuiltinKill \/ ErrorLine
    \/ FgSet \/ FgWait \/ FgSuspend \/ FgResume

NextFairFg ==
    \/ \E bg \in {0, 1} : EvalBlock(bg)
    \/ MainSteps
    \/ \E jid \in JidArgs : BuiltinByJid("fg", jid)
    \/ FgSteps
    \/ Deliver(SIGCHLD)
    \/ ChldSteps
    \/ \E p \in Pids : ChildExit(p) \/ ChildStop(p)

FairFgSpec ==
    /\ InitPids(MaxPid) /\ [][NextFairFg]_vars
    /\ SF_vars(MainSteps) /\ SF_vars(FgSteps)
    /\ SF_vars(ChldSteps)
    /\ SF_vars(Deliver(SIGCHLD))

\* The same shell with a user who also types ctrl-c, which kills the child
\* it is forwarded to.
IntSteps ==
    (HandlerFgpid /\ Top.h = SIGINT) \/ (HandlerBlock /\ Top.h = SIGINT)
        \/ IntBody

NextFairInt ==
    \/ NextFairFg
    \/ Keyboard(SIGINT)
    \/ Deliver(SIGINT)
    \/ IntSteps
    \/ \E p \in Pids : ChildSignal(p, SIGINT)

FairIntSpec ==
    /\ InitPids(MaxPid) /\ [][NextFairInt]_vars
    /\ SF_vars(MainSteps) /\ SF_vars(FgSteps)
    /\ SF_vars(ChldSteps) /\ SF_vars(IntSteps)
    /\ SF_vars(Deliver(SIGCHLD)) /\ SF_vars(Deliver(SIGINT))

\* The shell with several children that are launched in the foreground or in
\* the background and exit by themselves or are killed from outside the
\* shell, under the same scheduling.
NextFairJobs ==
    \/ \E bg \in {0, 1} : EvalBlock(bg)
    \/ MainSteps
    \/ Deliver(SIGCHLD)
    \/ ChldSteps
    \/ \E p \in Pids : ChildExit(p) \/ ChildKilled(p)

FairJobsSpec ==
    /\ InitPids(MaxPidFair) /\ [][NextFairJobs]_vars
    /\ SF_vars(MainSteps)
    /\ SF_vars(ChldSteps)
    /\ SF_vars(Deliver(SIGCHLD))

\* The shell with a user who launches programs and types ctrl-z, and
\* children that exit by themselves or stop when the stop signal forwarded
\* by the shell reaches them.
NextStop ==
    \/ \E bg \in {0, 1} : EvalBlock(bg)
    \/ MainSteps
    \/ Deliver(SIGCHLD) \/ Deliver(SIGTSTP)
    \/ ChldSteps \/ TstpSteps
    \/ Keyboard(SIGTSTP)
    \/ \E p \in Pids : ChildExit(p) \/ ChildSignal(p, SIGTSTP)

SpecStop == InitPids(MaxPid) /\ [][NextStop]_vars

\* The same shell with a user who also types fg %jid and bg %jid.
BgSteps == BgSet \/ BgPrint

NextStopCont ==
    \/ NextStop
    \/ \E cmd \in {"fg", "bg"}, jid \in JidArgs : BuiltinByJid(cmd, jid)
    \/ FgSteps \/ BgSteps

SpecStopCont == InitPids(MaxPidFair) /\ [][NextStopCont]_vars

\* The shell with more children than the table can hold: long-running
\* programs are launched in the background and listed with jobs; the ones
\* in the table run on, and a process that was launched when the table was
\* full (and is in no slot) exits, is killed or stops by itself.
Untracked(p) ==
    /\ Alive(proc[p]) /\ ~InTable(job_list, p)
    /\ ~(pc = "eval_addjob" /\ m.pid = p)

NextFull ==
    \/ EvalBlock(1)
    \/ EvalFork \/ EvalAddjob \/ EvalPrint \/ EvalUnblock
    \/ ListjobsStart \/ ListjobsSteps
    \/ Deliver(SIGCHLD)
    \/ ChldSteps
    \/ \E p \in Pids :
        Untracked(p) /\ (ChildExit(p) \/ ChildKilled(p) \/ ChildStop(p))

SpecFull == InitPids(MaxPidFull) /\ [][NextFull]_vars

\* The end-to-end scenario "/bin/echo ok &" then "jobs": programs that only
\* exit are launched in the background, and jobs is typed only as the command
\* that follows a launch; out then holds the launch line and the listing.
JustLaunched == Len(out) = 1 /\ out[1].kind = "job"

NextEcho ==
    \/ EvalBlock(1)
    \/ EvalFork \/ EvalAddjob \/ EvalPrint \/ EvalUnblock
    \/ (JustLaunched /\ ListjobsBegin /\ UNCHANGED out)
    \/ ListjobsSteps
    \/ Deliver(SIGCHLD)
    \/ ChldSteps
    \/ \E p \in Pids : ChildExit(p)

SpecEcho == InitPids(MaxPidFair) /\ [][NextEcho]_vars

\* The shell with children that exit or stop by themselves and a user who
\* launches programs and types quit, under the same scheduling: the steps of
\* execute_quit run when they can.
QuitSteps == QuitWait \/ QuitBody

NextFairQuit ==
    \/ \E bg \in {0, 1} : EvalBlock(bg)
    \/ MainSteps
    \/ QuitBlock
    \/ QuitSteps
    \/ Deliver(SIGCHLD)
    \/ ChldSteps
    \/ \E p \in Pids : ChildExit(p) \/ ChildStop(p)

FairQuitSpec ==
    /\ InitPids(MaxPidFair) /\ [][NextFairQuit]_vars
    /\ SF_vars(MainSteps) /\ SF_vars(QuitSteps)
    /\ SF_vars(ChldSteps)
    /\ SF_vars(Deliver(SIGCHLD))

\* The shell with a user who launches programs, some of which do not exist:
\* a child exits by itself or fails to exec.
NextExec ==
    \/ \E bg \in {0, 1} : EvalBlock(bg)
    \/ MainSteps
    \/ Deliver(SIGCHLD)
    \/ ChldSteps
    \/ \E p \in Pids : ChildExit(p) \/ ExecFails(p)

SpecExec == InitPids(MaxPidFair) /\ [][NextExec]_vars

(* ------------------------------------------------------------------ *)
(* The job table driven directly: any sequence of addjob and deletejob  *)
(* ------------------------------------------------------------------ *)
ShellVars == <<mask, pending, proc, csig, pc, m, hstack, woken, shell, out>>

TableAdd(pid, state) ==
    /\ nextjid <= MaxJid
    /\ ~InTable(job_list, pid)
    /\ LET r == addjob(job_list, nextjid, pid, state, "cmd") IN
        /\ job_list' = r.jl
        /\ nextjid' = r.nj
    /\ UNCHANGED ShellVars

TableDelete(pid) ==
    /\ LET r == deletejob(job_list, nextjid, pid) IN
        /\ r.ok = 1
        /\ job_list' = r.jl
        /\ nextjid' = r.nj
    /\ UNCHANGED ShellVars

TableNext ==
    \/ \E pid \in TablePids : TableAdd(pid, BG)
    \/ \E pid \in TablePids : TableDelete(pid)

SpecTable == Init /\ [][TableNext]_vars

(* ------------------------------------------------------------------ *)
(* Properties of the job table                                         *)
(* ------------------------------------------------------------------ *)
Occupied(jl) == {i \in Slots : jl[i].pid # 0}

SetMax(S) == IF S = {} THEN 0 ELSE CHOOSE x \in S : \A y \in S : y <= x

MaxOccupiedJid(jl) == SetMax({jl[i].jid : i \in Occupied(jl)})

\* C2: the ids of all occupied slots are pairwise distinct (an id is handed
\* out again only after the slot that owned it has been freed).
C2_JidsDistinct ==
    \A i, j \in Occupied(job_list) : i # j => job_list[i].jid # job_list[j].jid

\* C3: a step that frees a slot (deletejob) leaves the next-id counter at one
\* more than the maximum id of the still-occupied slots (1 if none is left),
\* and a step that fills a slot (addjob) gives it exactly the counter's value.
C3_DeleteRecomputesNextJid ==
    [][ /\ (\E i \in Slots : job_list[i].pid # 0 /\ job_list'[i].pid = 0)
            => nextjid' = MaxOccupiedJid(job_list') + 1
        /\ \A i \in Slots : (job_list[i].pid = 0 /\ job_list'[i].pid # 0)
            => job_list'[i].jid = nextjid ]_vars

\* a deletion has left a hole below a job that is still there, and the
\* counter stands right above the largest id left
C3_Witness ==
    /\ \E i, j \in Slots : i < j /\ job_list[i].pid = 0 /\ job_list[j].pid # 0
    /\ job_list[MAXJOBS].pid # 0
    /\ job_list[MAXJOBS].jid = MaxOccupiedJid(job_list)
    /\ nextjid = MaxOccupiedJid(job_list) + 1

\* C4: the next-id counter is strictly greater than the id of every occupied
\* slot, in every reachable state.
C4_NextJidAboveAll ==
    \A i \in Occupied(job_list) : nextjid > job_list[i].jid

(* ------------------------------------------------------------------ *)
(* Properties of the shell                                             *)
(* ------------------------------------------------------------------ *)
FgSlots(jl) == {i \in Slots : jl[i].state = FG}

\* C1: in every reachable state the number of job-table slots whose state is
\* Foreground is 0 or 1.
C1_AtMostOneForeground == Cardinality(FgSlots(job_list)) <= 1

\* C5: every slot with pid 0 has state Undefined, id 0 and an empty command
\* line: nothing writes a state into a slot that has been cleared.
C5_FreeSlotsAreClear ==
    \A i \in Slots : job_list[i].pid = 0 => job_list[i] = EmptyJob

\* C6: no handler of the shell runs between eval's fork and the completion of
\* addjob for the child, and a child whose status change a handler has
\* collected with waitpid is always registered in the job table.
C6_NoHandlerBeforeRegistered ==
    /\ pc = "eval_addjob" => hstack = <<>>
    /\ \A k \in 1..Len(hstack) :
        hstack[k].pc \in {"c_block", "c_body"}
            => getjobpid(job_list, hstack[k].pid) # 0

\* the child has already exited, and its SIGCHLD is pending, while eval has
\* forked it but not yet called addjob
C6_Witness ==
    /\ pc = "eval_addjob"
    /\ proc[m.pid] = "zexit"
    /\ SIGCHLD \in pending
    /\ getjobpid(job_list, m.pid) = 0

\* the steps that read the job table to take a decision: the state tests and
\* fgpid loops of the main flow, and the lookups of the handlers
DecisionRead ==
    \/ pc \in {"fg_undef", "fg_st", "bg_st", "fg_wait", "eval_wait"} /\ pc' # pc
    \/ /\ hstack # <<>> /\ Len(hstack') = Len(hstack) /\ hstack' # hstack
       /\ Top.pc \in {"i_fgpid", "t_fgpid", "t_job", "c_body"}

\* C7: every write to the job table and every decision-making read of it is
\* executed while the full signal set is blocked.
C7_TableAccessBlocked ==
    [][(job_list' # job_list \/ nextjid' # nextjid \/ DecisionRead)
        => mask = mask_all]_vars

\* C8: a foreground launch does not leave eval's wait loop while the job table
\* still shows its pid as a Foreground job.
C8_EvalWaitsForForeground ==
    (pc = "eval_unblock" /\ m.bg = 0)
        => ~(\E i \in Slots : job_list[i].pid = m.pid /\ job_list[i].state = FG)

\* eval is in its foreground wait and the job it launched has stopped or
\* terminated
EvalWaitsOnGoneJob ==
    /\ pc \in {"eval_wait", "eval_suspend", "eval_suspended"}
    /\ proc[m.pid] # "run"

\* C9: no lost wake-up in eval's foreground wait: once the foreground job
\* launched by eval has stopped or terminated, eval eventually returns to the
\* read loop.
C9_EvalWaitReturns == EvalWaitsOnGoneJob ~> (pc = "read")

\* (what the wait itself guarantees: eval leaves the wait unless the shell
\* process has died meanwhile)
EvalWaitReturnsOrShellDies ==
    EvalWaitsOnGoneJob ~> (pc = "read" \/ shell = "crashed")

\* C10: fg does not return to the read loop while the job it has set to
\* Foreground is still in the table with state Foreground.
C10_FgWaitsForTarget ==
    [][(pc = "fg_wait" /\ pc' = "read")
        => ~(job_list[m.job].pid = m.pid /\ m.pid # 0
             /\ job_list[m.job].state = FG)]_vars

\* fg has set its target to Foreground and found it with fgpid, the target's
\* process is still running and no status change of it is outstanding
FgWaitsOnRunningJob ==
    /\ pc = "fg_suspend" /\ hstack = <<>> /\ SIGCHLD \notin pending
    /\ m.pid # 0 /\ proc[m.pid] = "run"
    /\ job_list[m.job].pid = m.pid /\ job_list[m.job].state = FG

\* C11: no lost wake-up in the wait of fg: from any point of the wait at
\* which the job brought to the foreground is running, either the job runs
\* forever, or (it stops or terminates, and) fg eventually returns to the read
\* loop without any further signal.
C11_FgWaitReturns ==
    [](FgWaitsOnRunningJob
        => (<>(pc = "read") \/ <>[](m.pid # 0 /\ proc[m.pid] = "run")))

\* a SIGCHLD is pending or its handler is in progress
ChldInProgress ==
    SIGCHLD \in pending \/ \E k \in 1..Len(hstack) : hstack[k].h = SIGCHLD

Observed ==
    IF hstack # <<>> THEN [pid |-> Top.pid, status |-> Top.status]
    ELSE [pid |-> m.pid, status |-> m.status]

\* the step is the loop body of sigchld_handler or of quit
WaitLoopBody ==
    \/ hstack # <<>> /\ Top.pc = "c_body" /\ hstack' # hstack
    \/ hstack = <<>> /\ pc = "quit_body" /\ pc' = "quit_wait"

\* C13: a slot is cleared exactly when a wait query has reported the job's
\* process as exited or killed by a signal: every step that clears a slot
\* acts on such a report for the slot's pid (never on a stopped process), and
\* every such report makes the loop body remove the job.
C13_RemovedOnlyWhenDead ==
    [][ /\ \A i \in Slots :
            (job_list[i].pid # 0 /\ job_list'[i].pid = 0)
                => /\ Observed.pid = job_list[i].pid
                   /\ Observed.status \in {"zexit", "zsig", "zkill"}
                   /\ ~Stopped(proc[job_list[i].pid])
        /\ (WaitLoopBody /\ Observed.status \in {"zexit", "zsig", "zkill"})
                => ~InTable(job_list', Observed.pid) ]_vars

\* quit has waited for a stopped job and sent it the interrupt; the job is
\* still in the table
C13_Witness ==
    /\ pc = "quit_wait"
    /\ \E p \in Pids :
        proc[p] = "stopR" /\ SIGINT \in csig[p] /\ InTable(job_list, p)

(* ------------------------------------------------------------------ *)
(* Properties of the output                                            *)
(* ------------------------------------------------------------------ *)
\* the number of stop notifications for pid among the lines o
StopLines(o, pid) ==
    Cardinality({k \in 1..Len(o) : o[k].kind = "stopped" /\ o[k].pid = pid})

\* the step is one of sigtstp_handler
TstpStep == hstack # <<>> /\ Top.h = SIGTSTP /\ hstack' # hstack

\* C14: a terminal-stop delivered while the foreground job runs, then a second
\* one when the job is already Stopped, emit exactly one stop notification:
\* the handler's notification for a job is the only one in the output; a
\* handler delivered when no job is Foreground finds no foreground job and
\* then changes neither the table nor the output; and the SIGCHLD handler
\* that is told of the stop of a job already Stopped changes neither.
C14_SecondStopIsSilent ==
    [][ /\ \A p \in Pids : StopLines(out', p) <= 1
        /\ (TstpStep /\ Top.pc = "t_body" /\ Top.pid # 0)
                => StopLines(out', Top.pid) = 1
        /\ (TstpStep /\ Top.pc = "t_fgpid" /\ FgSlots(job_list) = {})
                => hstack'[Len(hstack)].pid = 0
        /\ (TstpStep /\ Top.pc # "t_fgpid" /\ Top.pid = 0)
                => UNCHANGED <<job_list, nextjid, out>>
        /\ ( /\ hstack # <<>> /\ Top.pc = "c_body" /\ Top.status = "stopU"
             /\ hstack' # hstack
             /\ job_list[getjobpid(job_list, Top.pid)].state = ST )
                => UNCHANGED <<job_list, nextjid, out>> ]_vars

\* the second terminal-stop is being handled: the job is Stopped, its process
\* has stopped, the handler has found no foreground job, and the output has
\* the one notification of the first
C14_Witness ==
    /\ hstack # <<>> /\ Top.h = SIGTSTP /\ Top.pc = "t_body" /\ Top.pid = 0
    /\ \E i \in Slots :
        /\ job_list[i].state = ST /\ job_list[i].pid # 0
        /\ Stopped(proc[job_list[i].pid])
        /\ StopLines(out, job_list[i].pid) = 1

\* the step is the loop body of sigchld_handler for a child reported as stopped
ChldStopStep ==
    /\ hstack # <<>> /\ Top.pc = "c_body" /\ Top.status = "stopU"
    /\ hstack' # hstack

\* C15: when every stop of a child is caused by the terminal-stop that the
\* SIGTSTP handler has forwarded (and notified, and recorded as Stopped), the
\* SIGCHLD handler that is told of the stop never prints a stop notification
\* and never sets the state to Stopped, whatever fg or bg of the same job is
\* under way.
C15_StopHandledOnce ==
    [][ChldStopStep => UNCHANGED <<job_list, nextjid, out>>]_vars

\* the number of termination notifications for pid naming signal sig among o
TermLines(o, pid, sig) ==
    Cardinality({k \in 1..Len(o) :
        o[k].kind = "terminated" /\ o[k].pid = pid /\ o[k].sig = sig})

\* fg waits for the job it has brought to the foreground, and the job's
\* process has died from the interrupt forwarded to it
FgJobInterrupted(p) ==
    /\ pc \in {"fg_wait", "fg_suspend", "fg_suspended"}
    /\ m.pid = p /\ proc[p] = "zsig"

\* C16: a job launched in the background and brought to the foreground with
\* fg that dies from the interrupt forwarded to it is eventually removed
\* from the table, with exactly one termination notification naming the
\* interrupt signal, and the shell is back in the read loop.
C16_FgInterruptRoundTrip ==
    \A p \in 1..MaxPid :
        FgJobInterrupted(p)
            ~> (pc = "read" /\ ~InTable(job_list, p)
                /\ TermLines(out, p, SIGINT) = 1)

(* ------------------------------------------------------------------ *)
(* Properties of a full table                                          *)
(* ------------------------------------------------------------------ *)
TableFull(jl) == \A i \in Slots : jl[i].pid # 0

\* the rows of a jobs listing among the lines o that show pid
RowsOf(o, pid) == {k \in 1..Len(o) : o[k].kind = "row" /\ o[k].pid = pid}

\* no row of a jobs listing shows a process that is in no slot
UntrackedNotListed == \A p \in Pids : Untracked(p) => RowsOf(out, p) = {}

\* C17: addjob on a table with no free slot returns failure, prints the
\* capacity diagnostic and leaves every slot and the next-id counter
\* unchanged; the process launched is in no row of a later jobs listing.
C17_FullTableRejects ==
    [][ /\ (pc = "eval_addjob" /\ pc' # pc /\ TableFull(job_list))
            => /\ addjob(job_list, nextjid, m.pid, m.bg + 1, "cmd").ok = 0
               /\ job_list' = job_list /\ nextjid' = nextjid
               /\ out' = Append(out, Line("full", 0, 0, ""))
               /\ ~InTable(job_list', m.pid)
        /\ UntrackedNotListed' ]_vars

\* jobs has listed the whole full table while a process launched after the
\* table was filled is running
C17_Witness ==
    /\ pc = "listjobs" /\ m.job > MAXJOBS
    /\ TableFull(job_list) /\ Len(out) = MAXJOBS
    /\ \E p \in Pids : Untracked(p)

\* C18: a status change of a process that was launched untracked (normal
\* exit, death by signal or stop) is handled by the SIGCHLD handler without
\* the shell crashing, and leaves the job table and the counter unchanged.
C18_UntrackedChangeHarmless ==
    [][ ( /\ hstack # <<>> /\ Top.pc = "c_body"
          /\ ~InTable(job_list, Top.pid) )
            => /\ shell' = "running"
               /\ job_list' = job_list /\ nextjid' = nextjid ]_vars

(* ------------------------------------------------------------------ *)
(* Properties of fg and bg                                             *)
(* ------------------------------------------------------------------ *)
\* the step is one of the main flow
MainStep == hstack = <<>> /\ (pc' # pc \/ m' # m \/ shell' # shell)

\* C19: fg and bg whose target names no job (or whose arguments are
\* malformed) do not crash: they go on to report one error line, send no
\* signal, leave the job table unchanged and return to the read loop.
C19_MissingJobReported ==
    [][ /\ (MainStep /\ pc \in {"fg_deref", "bg_deref"} /\ m.job = 0)
            => /\ shell' = "running" /\ pc' = "error_line"
               /\ UNCHANGED <<job_list, nextjid, proc, csig, out>>
        /\ (MainStep /\ pc = "error_line")
            => /\ pc' = "read" /\ Len(out') = Len(out) + 1
               /\ UNCHANGED <<job_list, nextjid, proc, csig>> ]_vars

\* the step is the loop body of sigchld_handler for a child reported as
\* exited or killed by a signal
ChldGoneStep ==
    /\ hstack # <<>> /\ Top.pc = "c_body" /\ hstack' # hstack
    /\ Top.status = "zexit" \/ Signaled(Top.status)

\* C20: the state of an occupied slot changes only along Foreground ->
\* Stopped, Stopped -> Foreground (fg), Stopped -> Background (bg) and
\* Background -> Foreground (fg), and a slot is freed only by the SIGCHLD
\* handler on an exit or a fatal signal.
C20_OnlyListedTransitions ==
    [][\A i \in Slots :
        /\ (job_list[i].pid # 0 /\ job_list'[i].pid = job_list[i].pid
            /\ job_list'[i].state # job_list[i].state)
            => \/ job_list[i].state = FG /\ job_list'[i].state = ST
               \/ /\ job_list[i].state = ST /\ job_list'[i].state = FG
                  /\ pc = "fg_set" /\ hstack = <<>>
               \/ /\ job_list[i].state = ST /\ job_list'[i].state = BG
                  /\ pc = "bg_set" /\ hstack = <<>>
               \/ /\ job_list[i].state = BG /\ job_list'[i].state = FG
                  /\ pc = "fg_set" /\ hstack = <<>>
        /\ (job_list[i].pid # 0 /\ job_list'[i].pid = 0) => ChldGoneStep ]_vars

(* ------------------------------------------------------------------ *)
(* A background launch followed by jobs                                *)
(* ------------------------------------------------------------------ *)
\* listjobs has walked the whole table, tsh.c:988
ListingDone == pc = "listjobs" /\ m.job > MAXJOBS

\* C21: after a background launch of a program that exits by itself, the
\* listing of the jobs command that follows has exactly one row for that
\* program, labelled Running, however the child's exit and sigchld_handler
\* interleave with the listing.
C21_ListingAlwaysShowsRunning ==
    ListingDone =>
        /\ out[1].kind = "job"
        /\ Cardinality(RowsOf(out, out[1].pid)) = 1
        /\ \A k \in RowsOf(out, out[1].pid) :
               out[k].jid = out[1].jid /\ out[k].sig = "Running"

(* ------------------------------------------------------------------ *)
(* quit                                                                *)
(* ------------------------------------------------------------------ *)
\* the jobs the table shows as Stopped whose process is stopped and has not
\* been sent SIGINT
StoppedUnsignalled ==
    {i \in Slots : /\ job_list[i].state = ST
                   /\ job_list[i].pid \in Pids
                   /\ Stopped(proc[job_list[i].pid])
                   /\ SIGINT \notin csig[job_list[i].pid]}

\* C22: once quit runs, its loop ends and the shell exits, and when the
\* shell has exited every job that was Stopped (also one whose stop
\* sigchld_handler had already reaped) has been sent SIGINT.
C22_QuitSignalsStoppedJobs ==
    /\ (pc = "quit_wait") ~> (shell = "exited")
    /\ [](shell = "exited" => StoppedUnsignalled = {})

(* ------------------------------------------------------------------ *)
(* Lines of output                                                     *)
(* ------------------------------------------------------------------ *)
\* the main flow has written the first fragment of a line and not yet the
\* last one (eval writes its line with the three signals blocked, tsh.c:258,
\* and the handlers write theirs with every signal blocked)
MidJobLine == pc \in {"bg_print_pid", "bg_print_cmdline"}
MidRow == pc \in {"listjobs_state", "listjobs_cmdline"}

\* C23: no line is written between the first and the last fragment of another
\* line: while the main flow is in the middle of a bg notification or of a
\* row of jobs, that line is the last one of the output.
C23_NoMidLineInterleaving ==
    /\ MidJobLine => out[Len(out)].kind = "job"
    /\ MidRow => out[Len(out)].kind = "row"

(* ------------------------------------------------------------------ *)
(* A program that cannot be executed                                   *)
(* ------------------------------------------------------------------ *)
\* C24: when exec fails, the child writes exactly "<argv0>: Command not
\* found." and a newline and exits with status 0, and the shell removes the
\* job without a termination notification.
C24_ExecFailureReported ==
    \A k \in 1..Len(out) :
        out[k].kind = "child" =>
            /\ out[k].sig = ": Command not found.\n"
            /\ proc[out[k].pid] \in {"zexit", "free", "run"}
            /\ \A j \in 1..Len(out) :
                   ~(out[j].kind = "terminated" /\ out[j].pid = out[k].pid)

(* ------------------------------------------------------------------ *)
(* sigint_handler                                                      *)
(* ------------------------------------------------------------------ *)
\* a step in which sigint_handler reaches its return, tsh.c:771-782
IntBodyStep ==
    /\ hstack # <<>> /\ Top.h = SIGINT /\ Top.pc = "i_body"
    /\ Len(hstack') < Len(hstack)

\* C25: while sigint_handler is the running frame the job table and nextjid
\* do not change; the pid it looks up is fgpid(job_list); when it is not 0
\* SIGINT is sent to that process group and to no other, and when it is 0
\* nothing is sent.
C25_IntHandlerLeavesTable ==
    [][ /\ (hstack # <<>> /\ Top.h = SIGINT) => UNCHANGED TableVars
        /\ (hstack # <<>> /\ Top.h = SIGINT /\ Top.pc = "i_fgpid"
              /\ Len(hstack') = Len(hstack) /\ hstack' # hstack)
             => hstack'[Len(hstack)].pid = fgpid(job_list)
        /\ IntBodyStep =>
             /\ proc' = proc
             /\ \A p \in Pids :
                  csig'[p] = IF p = Top.pid /\ Alive(proc[p])
                             THEN csig[p] \cup {SIGINT} ELSE csig[p]
      ]_vars

\* sigint_handler has forwarded ctrl-c to the foreground job, which is still
\* in the table as the foreground job
C25_Witness ==
    /\ hstack = <<>> /\ pc = "eval_suspended"
    /\ \E p \in Pids : /\ fgpid(job_list) = p
                        /\ proc[p] = "run" /\ SIGINT \in csig[p]

(* ------------------------------------------------------------------ *)
(* fg and bg on an existing job                                        *)
(* ------------------------------------------------------------------ *)
\* the slot fg / bg looked up still holds the job that was found there
TargetInSlot == job_list[m.job].pid = m.pid /\ m.pid # 0

\* C26: fg and bg send SIGCONT exactly when the job is Stopped (a job that is
\* not Stopped goes on to the state write without a signal), the state they
\* then write is the state of that job, and the line of bg shows the id and
\* the pid of that job.
C26_ContinueThenSetState ==
    [][ /\ (pc \in {"fg_st", "bg_st"} /\ pc' # pc) =>
             (pc' \in {"fg_kill", "bg_kill"} <=> job_list[m.job].state = ST)
        /\ (pc \in {"fg_kill", "bg_kill"} /\ pc' # pc) =>
             (TargetInSlot /\ job_list[m.job].state = ST)
        /\ (pc \in {"fg_set", "bg_set"} /\ pc' # pc) =>
             (TargetInSlot /\ job_list'[m.job].state = IF pc = "fg_set" THEN FG ELSE BG)
        /\ (pc = "bg_print_cmdline" /\ pc' # pc) =>
             /\ out[OpenLine(out, "job")].pid = m.pid
             /\ out[OpenLine(out, "job")].jid = pid2jid(job_list, m.pid)
             /\ out[OpenLine(out, "job")].jid # 0
      ]_vars

(* ------------------------------------------------------------------ *)
(* The signals the shell sends                                         *)
(* ------------------------------------------------------------------ *)
\* a process the shell has forked and not yet reaped
Child(pr, p) == p \in DOMAIN pr /\ pr[p] # "free"

\* the step signals at most the process t
OnlyTarget(t) ==
    \A p \in Pids \ {t} : proc'[p] = proc[p] /\ csig'[p] = csig[p]

\* kill(-pid, SIGCONT) of fg / bg and kill(-pid, SIGINT) of quit
MainKillStep ==
    /\ pc' # pc
    /\ \/ pc \in {"fg_kill", "bg_kill"}
       \/ pc = "quit_body" /\ m.status = "stopU"

\* sigint_handler or sigtstp_handler runs its masked section and returns
HandlerBodyStep ==
    /\ hstack # <<>> /\ Top.pc \in {"i_body", "t_body"}
    /\ Len(hstack') < Len(hstack)

\* C27: every signal is sent to the group of a positive pid that was looked
\* up in the job table (fg, bg, the handlers) or reported by waitpid (quit):
\* the handlers send nothing when they find no foreground job, no signal
\* reaches another process, and none is sent to group 0, the shell's own.
C27_SignalsGoToChildren ==
    [][ /\ (pc = "quit_wait" /\ pc' = "quit_body") => Child(proc, m'.pid)
        /\ (hstack # <<>> /\ Top.pc \in {"i_fgpid", "t_fgpid"}
              /\ Len(hstack') = Len(hstack) /\ hstack' # hstack)
             => \/ hstack'[Len(hstack)].pid = 0
                \/ InTable(job_list, hstack'[Len(hstack)].pid)
        /\ MainKillStep =>
             /\ m.pid \in Pids /\ OnlyTarget(m.pid)
             /\ pending' \subseteq pending \cup {SIGCHLD}
        /\ HandlerBodyStep =>
             /\ Top.pid = 0 => UNCHANGED <<proc, csig>>
             /\ Top.pid # 0 => Top.pid \in Pids /\ OnlyTarget(Top.pid)
             /\ pending' = pending
      ]_vars

(* ------------------------------------------------------------------ *)
(* sigtstp_handler and a job that disappears                           *)
(* ------------------------------------------------------------------ *)
\* C28: when sigtstp_handler, having interrupted the main flow, enters its
\* masked section with a foreground pid, the job it looked up is still there
\* whatever ran since the lookup: job is not NULL and points to the slot of
\* that pid, the id it will print is not 0, and the process it will signal
\* has not been reaped.
C28_TstpActsOnLiveJob ==
    (InHandler(SIGTSTP, "t_body") /\ Len(hstack) = 1 /\ Top.pid # 0) =>
        /\ Top.job # 0 /\ Top.jid # 0
        /\ job_list[Top.job].pid = Top.pid
        /\ Child(proc, Top.pid)

(* ------------------------------------------------------------------ *)
(* The signal mask                                                     *)
(* ------------------------------------------------------------------ *)
\* the mask a handler was entered with: that of the interrupted code plus
\* the signal being handled
EntryMask == Top.saved \cup SaMask(Top.h)

\* C29: whenever main's loop is about to read a command line no signal is
\* blocked, as at start-up; outside its masked section a handler runs with
\* the mask it was entered with, and inside it the mask it will restore
\* before returning is that mask.
C29_MaskRestored ==
    Running =>
        /\ (pc = "read" /\ hstack = <<>>) => mask = {}
        /\ hstack # <<>> =>
             IF Top.pc \in {"c_body", "i_body", "t_body"}
             THEN Top.prev = EntryMask /\ mask = EntryMask \cup mask_all
             ELSE mask = EntryMask

\* the shell is back at the prompt, with no signal blocked, after a
\* foreground launch during which a handler has run and printed its line
C29_Witness ==
    /\ Running /\ pc = "read" /\ hstack = <<>> /\ mask = {}
    /\ \E k \in 1..Len(out) : out[k].kind \in {"stopped", "terminated"}
====
